---- MODULE Spec2Model ----
(***************************************************************************)
(* Access control of the course-todo backend: projects, project            *)
(* memberships, tasks and notes in the relational store, and the use-case  *)
(* operations that read and change them.  Every request is handled by its  *)
(* own goroutine; a request that issues several SQL statements is modelled *)
(* one statement per step, so that statements of concurrent requests       *)
(* interleave.  A single SQL statement (and the CreateProject transaction) *)
(* is atomic.                                                              *)
(***************************************************************************)
EXTENDS Bags, FiniteSets, Integers, Sequences, TLC

(* ---------------------------- bounds ----------------------------------- *)
NumUsers == 3          \* rows of todo."user"; users are never deleted
MaxProjects == 2       \* project rows ever created (ids are never reused)
MaxTasks == 1          \* task rows ever created
MaxNotes == 1          \* note rows ever created
MaxInflight == 2       \* requests handled concurrently
TokenLifeSpan == 2     \* ticks a session token is valid for (JWT_TOKEN_LIFESPAN)
MaxTime == 5           \* ticks of the clock that are followed
MaxRegistered == 2     \* users that register besides the NumUsers there are

Users == 1..NumUsers
ProjectIDs == 1..MaxProjects
TaskIDs == 1..MaxTasks
NoteIDs == 1..MaxNotes
Slots == 1..MaxInflight

\* request payloads: project name / task title / note name, and project description
Names == {"a", "b"}
Descriptions == {"", "x"}
\* outcomes of the infrastructure during the CreateProject transaction
Faults == {"none", "begin", "project", "member", "commit"}
\* outcomes of the infrastructure during the access check of a create
CheckFaults == {"none", "check"}

(* ------------------------ program constants ---------------------------- *)
RoleOwner == "owner"
RoleMember == "member"

StatusWaiting == "waiting"
StatusInProgress == "in_progress"
StatusCompleted == "completed"

ErrNil == "nil"
ErrNotFound == "not found"
ErrNoAccess == "no access to project"
ErrNotOwner == "user is not project owner"
ErrOwnerCannotLeave == "project owner cannot leave project"
\* errors of database/sql and of the PostgreSQL driver, passed through unchanged
ErrNoRows == "sql: no rows in result set"
ErrUniqueViolation == "pq: unique_violation"
ErrForeignKey == "pq: foreign_key_violation"
ErrCheckViolation == "pq: check_violation"
ErrConn == "database connection error"
ErrInvalidID == "invalid id format"
ErrInvalidToken == "invalid token"
ErrIsDuplicateKey == "user with this login or email already exists"
\* an error of the Redis client
ErrRedis == "redis: connection error"
\* an error of Tokenator.CreateJWT
ErrSign == "jwt: signing error"

\* net/http status codes
StatusOK == 200
StatusBadRequest == 400
StatusUnauthorized == 401
StatusForbidden == 403
StatusNotFound == 404
StatusInternalServerError == 500

(* ------------------------------ state ---------------------------------- *)
VARIABLES
    project,        \* table todo.project: set of [id, name, description, owner_id]
    project_member, \* table todo.project_member: bag of [project_id, user_id, role]
    task,           \* table todo.task: set of [id, project_id, user_id, title, status]
    note,           \* table todo.note: set of [id, project_id, user_id, name]
    nextProject,    \* number of project ids handed out so far
    nextTask,       \* number of task ids handed out so far
    nextNote,       \* number of note ids handed out so far
    req,            \* req[s]: the request goroutine s is handling
    handled,        \* the error given to HandleError and the status code it sent
    user,           \* table todo."user": set of [id, login]
    now,            \* the clock of the store and of the token checks, in ticks
    blacklist       \* Redis: blacklist[u] is the key "user_id:u", [members, deadline]

vars == <<project, project_member, task, note, nextProject, nextTask, nextNote, req,
          handled, user, now, blacklist>>
db == <<project, project_member, task, note, nextProject, nextTask, nextNote>>
\* the registered users, the clock and the revocation store
auth == <<user, now, blacklist>>

\* A request: the operation, the step it is at, the principal of the context,
\* its arguments, what it has read so far, and its result once pc = "done".
Idle ==
    [op |-> "none", pc |-> "idle", user |-> 0, pid |-> 0, arg |-> 0,
     name |-> "", description |-> "", err |-> ErrNil, out |-> EmptyBag]

Request(op, pc, uid, pid, arg, name, description) ==
    [op |-> op, pc |-> pc, user |-> uid, pid |-> pid, arg |-> arg,
     name |-> name, description |-> description, err |-> ErrNil, out |-> EmptyBag]

\* the request returns err (and data out) to its caller
Done(r, err, out) == [r EXCEPT !.pc = "done", !.err = err, !.out = out]

\* a goroutine that is not in the middle of a request can take the next one
Free(s) == req[s].pc \in {"idle", "done"}

\* requests of operation op that are past their gate and have not returned yet
Pending(op) == Cardinality({s \in Slots : req[s].op = op /\ req[s].pc \notin {"idle", "done"}})

(* ----------------------- rows and SQL predicates ----------------------- *)
MemberRow(pid, uid, role) == [project_id |-> pid, user_id |-> uid, role |-> role]

\* rows of a bag-valued table that satisfy Keep(_)
BagFilter(B, Keep(_)) == [r \in {x \in BagToSet(B) : Keep(x)} |-> B[r]]

\* number of project_member rows for (pid, uid), whatever the role
MemberCount(pm, pid, uid) ==
    BagCardinality(BagFilter(pm, LAMBDA r : r.project_id = pid /\ r.user_id = uid))

\* SELECT pm.project_id FROM todo.project_member pm WHERE pm.user_id = uid
MemberProjects(pm, uid) == {r.project_id : r \in {x \in BagToSet(pm) : x.user_id = uid}}

\* a row of todo."user": login is UNIQUE; the other columns play no part
UserRow(id, login) == [id |-> id, login |-> login]

\* the ids of the rows of todo."user"
UserIDs == {u.id : u \in user}

\* a Redis key that does not exist, and a key without a time to live
NoTTL == 0
NoKey == [members |-> {}, deadline |-> NoTTL]

(* ------------------------------ error values -------------------------- *)
\* An error value: its own text and the errors it wraps (what Unwrap returns).
\* errors.New(text)
NewError(text) == [text |-> text, wraps |-> <<>>]

\* fmt.Errorf("%s: %w", op, e)
Errorf(e) == [text |-> "%s: %w", wraps |-> <<e>>]

\* errors.Join(a, b)
Join(a, b) == [text |-> "join", wraps |-> <<a, b>>]

\* the nil error
NilError == NewError(ErrNil)

\* errors.Is(err, target): err itself, or depth-first any error it wraps
RECURSIVE Is(_, _)
Is(err, target) ==
    \/ err = target
    \/ \E i \in DOMAIN err.wraps : Is(err.wraps[i], target)

\* nothing has been given to HandleError
NotHandled == [err |-> NilError, sent |-> FALSE, code |-> 0]

Init ==
    /\ project = {}
    /\ project_member = EmptyBag
    /\ task = {}
    /\ note = {}
    /\ nextProject = 0
    /\ nextTask = 0
    /\ nextNote = 0
    /\ req = [s \in Slots |-> Idle]
    /\ handled = NotHandled
    /\ user = {UserRow(u, u) : u \in Users}
    /\ now = 1
    /\ blacklist = [u \in Users |-> NoKey]

(* ------------------- ProjectRepository (SQL statements) ---------------- *)
\* created_at is DEFAULT CURRENT_TIMESTAMP: the clock at the INSERT
ProjectRow(id, name, description, ownerID, createdAt) ==
    [id |-> id, name |-> name, description |-> description, owner_id |-> ownerID,
     created_at |-> createdAt]

\* queryGetProjectByID: the project row with this id, or ErrNotFound on sql.ErrNoRows
RepoGetProjectByID(id) ==
    LET rows == {p \in project : p.id = id}
    IN  IF rows = {} THEN [err |-> ErrNotFound, rows |-> {}]
        ELSE [err |-> ErrNil, rows |-> rows]

\* RepoGetUserProjects with a query that lacks the JOIN on project_member
RepoGetUserProjects_All(userID) ==
    SetToBag(project)

\* queryGetUserProjects: project JOIN project_member ON id WHERE pm.user_id = userID;
\* one result row per joined membership row
RepoGetUserProjects(userID) ==
    LET joined(p) == MemberCount(project_member, p.id, userID)
    IN  [p \in {x \in project : joined(x) > 0} |-> joined(p)]

\* RepoCheckProjectAccess with a query that counts the rows with role 'owner' only
RepoCheckProjectAccess_OwnerOnly(projectID, userID) ==
    BagCardinality(BagFilter(project_member,
        LAMBDA r : r.project_id = projectID /\ r.user_id = userID
                   /\ r.role = RoleOwner)) > 0

\* queryCheckProjectAccess: COUNT(*) of the (projectID, userID) rows > 0
RepoCheckProjectAccess(projectID, userID) ==
    MemberCount(project_member, projectID, userID) > 0

\* InsertMember on a table without UNIQUE (project_id, user_id)
InsertMember_NoUnique(proj, pm, projectID, userID, role) ==
    IF projectID \notin {p.id : p \in proj} \/ userID \notin UserIDs
      THEN [err |-> ErrForeignKey, project_member |-> pm]
    ELSE IF role \notin {RoleOwner, RoleMember}
      THEN [err |-> ErrCheckViolation, project_member |-> pm]
    ELSE [err |-> ErrNil,
          project_member |-> pm (+) SetToBag({MemberRow(projectID, userID, role)})]

\* INSERT INTO todo.project_member under the table's constraints:
\* FOREIGN KEY (project_id), FOREIGN KEY (user_id), UNIQUE (project_id, user_id),
\* CHECK (role IN ('owner', 'member'))
InsertMember(proj, pm, projectID, userID, role) ==
    IF projectID \notin {p.id : p \in proj} \/ userID \notin UserIDs
      THEN [err |-> ErrForeignKey, project_member |-> pm]
    ELSE IF role \notin {RoleOwner, RoleMember}
      THEN [err |-> ErrCheckViolation, project_member |-> pm]
    ELSE IF MemberCount(pm, projectID, userID) > 0
      THEN [err |-> ErrUniqueViolation, project_member |-> pm]
    ELSE [err |-> ErrNil,
          project_member |-> pm (+) SetToBag({MemberRow(projectID, userID, role)})]

\* RepoCreateProject that stores the creator's membership row with role 'member'
RepoCreateProject_MemberRole(fault, id, name, description, ownerID) ==
    LET afterProject == project \cup {ProjectRow(id, name, description, ownerID, now)}
        member == InsertMember(afterProject, project_member, id, ownerID, RoleMember)
        rolledBack(err) ==
            [err |-> err, project |-> project, project_member |-> project_member,
             returning |-> [id |-> 0, created_at |-> 0]]
    IN  IF fault \in {"begin", "project"} THEN rolledBack(ErrConn)
        ELSE IF ownerID \notin UserIDs THEN rolledBack(ErrForeignKey)
        ELSE IF fault = "member" THEN rolledBack(ErrConn)
        ELSE IF member.err # ErrNil THEN rolledBack(member.err)
        ELSE IF fault = "commit" THEN rolledBack(ErrConn)
        ELSE [err |-> ErrNil, project |-> afterProject,
              project_member |-> member.project_member,
              returning |-> [id |-> id, created_at |-> now]]

\* RepoCreateProject without the transaction: each INSERT is on its own, so the
\* project row stays when the membership INSERT or the Commit fails
RepoCreateProject_NoTx(fault, id, name, description, ownerID) ==
    LET afterProject == project \cup {ProjectRow(id, name, description, ownerID, now)}
        member == InsertMember(afterProject, project_member, id, ownerID, RoleOwner)
        unchanged(err) ==
            [err |-> err, project |-> project, project_member |-> project_member,
             returning |-> [id |-> 0, created_at |-> 0]]
        projectOnly(err) ==
            [err |-> err, project |-> afterProject, project_member |-> project_member,
             returning |-> [id |-> 0, created_at |-> 0]]
    IN  IF fault \in {"begin", "project"} THEN unchanged(ErrConn)
        ELSE IF ownerID \notin UserIDs THEN unchanged(ErrForeignKey)
        ELSE IF fault = "member" THEN projectOnly(ErrConn)
        ELSE IF member.err # ErrNil THEN projectOnly(member.err)
        ELSE IF fault = "commit" THEN projectOnly(ErrConn)
        ELSE [err |-> ErrNil, project |-> afterProject,
              project_member |-> member.project_member,
              returning |-> [id |-> id, created_at |-> now]]

\* RepoCreateProject whose first INSERT is "RETURNING id": created_at is not scanned
\* and the model struct keeps the zero time
RepoCreateProject_ReturningID(fault, id, name, description, ownerID) ==
    LET afterProject == project \cup {ProjectRow(id, name, description, ownerID, now)}
        member == InsertMember(afterProject, project_member, id, ownerID, RoleOwner)
        rolledBack(err) ==
            [err |-> err, project |-> project, project_member |-> project_member,
             returning |-> [id |-> 0, created_at |-> 0]]
    IN  IF fault \in {"begin", "project"} THEN rolledBack(ErrConn)
        ELSE IF ownerID \notin UserIDs THEN rolledBack(ErrForeignKey)
        ELSE IF fault = "member" THEN rolledBack(ErrConn)
        ELSE IF member.err # ErrNil THEN rolledBack(member.err)
        ELSE IF fault = "commit" THEN rolledBack(ErrConn)
        ELSE [err |-> ErrNil, project |-> afterProject,
              project_member |-> member.project_member,
              returning |-> [id |-> id, created_at |-> 0]]

\* CreateProject: BeginTx; INSERT the project row; INSERT the owner's membership row;
\* Commit.  Any error returns early and the deferred tx.Rollback() discards both
\* inserts.  fault is where the infrastructure fails, if anywhere.  The first INSERT
\* is RETURNING id, created_at, which Scan writes into the model struct.
RepoCreateProject(fault, id, name, description, ownerID) ==
    LET afterProject == project \cup {ProjectRow(id, name, description, ownerID, now)}
        member == InsertMember(afterProject, project_member, id, ownerID, RoleOwner)
        rolledBack(err) ==
            [err |-> err, project |-> project, project_member |-> project_member,
             returning |-> [id |-> 0, created_at |-> 0]]
    IN  IF fault \in {"begin", "project"} THEN rolledBack(ErrConn)
        ELSE IF ownerID \notin UserIDs THEN rolledBack(ErrForeignKey)
        ELSE IF fault = "member" THEN rolledBack(ErrConn)
        ELSE IF member.err # ErrNil THEN rolledBack(member.err)
        ELSE IF fault = "commit" THEN rolledBack(ErrConn)
        ELSE [err |-> ErrNil, project |-> afterProject,
              project_member |-> member.project_member,
              returning |-> [id |-> id, created_at |-> now]]

\* RepoAddProjectMember that passes models.RoleOwner to the INSERT
RepoAddProjectMember_AsOwner(projectID, userID) ==
    InsertMember(project, project_member, projectID, userID, RoleOwner)

\* AddProjectMember: queryAddProjectMember with role 'member'
RepoAddProjectMember(projectID, userID) ==
    InsertMember(project, project_member, projectID, userID, RoleMember)

\* queryGetProjectMembers: the membership rows of the project
RepoGetProjectMembers(projectID) ==
    BagFilter(project_member, LAMBDA r : r.project_id = projectID)

\* RepoDeleteProject on tables whose foreign keys lack ON DELETE CASCADE and are
\* not enforced: the project row goes, the rows that point at it stay
RepoDeleteProject_NoCascade(projectID, ownerID) ==
    LET hit == {p \in project : p.id = projectID /\ p.owner_id = ownerID}
    IN  IF hit = {}
          THEN [err |-> ErrNotFound, project |-> project,
                project_member |-> project_member, task |-> task, note |-> note]
          ELSE [err |-> ErrNil, project |-> project \ hit,
                project_member |-> project_member, task |-> task, note |-> note]

\* queryDeleteProject: DELETE ... WHERE id = projectID AND owner_id = ownerID, with
\* ON DELETE CASCADE on project_member, task and note; zero rows is ErrNotFound
RepoDeleteProject(projectID, ownerID) ==
    LET hit == {p \in project : p.id = projectID /\ p.owner_id = ownerID}
    IN  IF hit = {}
          THEN [err |-> ErrNotFound, project |-> project,
                project_member |-> project_member, task |-> task, note |-> note]
          ELSE [err |-> ErrNil, project |-> project \ hit,
                project_member |->
                    BagFilter(project_member, LAMBDA r : r.project_id # projectID),
                task |-> {t \in task : t.project_id # projectID},
                note |-> {n \in note : n.project_id # projectID}]

\* RepoRemoveProjectMember with a WHERE clause that lacks "AND role != 'owner'"
RepoRemoveProjectMember_AnyRole(projectID, userID) ==
    LET hit(r) == r.project_id = projectID /\ r.user_id = userID
        kept == BagFilter(project_member, LAMBDA r : ~hit(r))
    IN  IF kept = project_member
          THEN [err |-> ErrNotFound, project_member |-> project_member]
          ELSE [err |-> ErrNil, project_member |-> kept]

\* RepoRemoveProjectMember with a WHERE clause that lacks "AND user_id = $2"
RepoRemoveProjectMember_AllMembers(projectID, userID) ==
    LET hit(r) == r.project_id = projectID /\ r.role # RoleOwner
        kept == BagFilter(project_member, LAMBDA r : ~hit(r))
    IN  IF kept = project_member
          THEN [err |-> ErrNotFound, project_member |-> project_member]
          ELSE [err |-> ErrNil, project_member |-> kept]

\* queryRemoveProjectMember: DELETE ... WHERE project_id AND user_id AND
\* role != 'owner'; zero rows is ErrNotFound
RepoRemoveProjectMember(projectID, userID) ==
    LET hit(r) == r.project_id = projectID /\ r.user_id = userID /\ r.role # RoleOwner
        kept == BagFilter(project_member, LAMBDA r : ~hit(r))
    IN  IF kept = project_member
          THEN [err |-> ErrNotFound, project_member |-> project_member]
          ELSE [err |-> ErrNil, project_member |-> kept]

\* RepoUpdateProject with a WHERE clause that lacks "id = $1"
RepoUpdateProject_AnyProject(projectID, name, description, ownerID) ==
    LET hit == {p \in project : p.owner_id = ownerID}
    IN  IF hit = {} THEN [err |-> ErrNotFound, project |-> project]
        ELSE [err |-> ErrNil,
              project |-> (project \ hit) \cup
                  {[p EXCEPT !.name = name, !.description = description] : p \in hit}]

\* queryUpdateProject: UPDATE ... SET name, description WHERE id AND owner_id;
\* zero rows is ErrNotFound
RepoUpdateProject(projectID, name, description, ownerID) ==
    LET hit == {p \in project : p.id = projectID /\ p.owner_id = ownerID}
    IN  IF hit = {} THEN [err |-> ErrNotFound, project |-> project]
        ELSE [err |-> ErrNil,
              project |-> (project \ hit) \cup
                  {[p EXCEPT !.name = name, !.description = description] : p \in hit}]

(* --------------------------- ProjectUsecase ---------------------------- *)
\* Every action below is one step of goroutine s.  The first step of an operation
\* takes the request: the principal u of the context and the arguments.

\* CreateProject: no access check; the repository's transaction.  The answer is
\* the request's name, description and principal with the id and created_at that
\* the repository scanned.
CreateProject(s, u, name, description, fault) ==
    LET id == nextProject + 1
        r == RepoCreateProject(fault, id, name, description, u)
        rq == Request("CreateProject", "call", u, id, 0, name, description)
    IN  /\ Free(s)
        /\ nextProject < MaxProjects
        /\ project' = r.project
        /\ project_member' = r.project_member
        /\ nextProject' = IF r.err = ErrNil THEN id ELSE nextProject
        /\ req' = [req EXCEPT ![s] =
              IF r.err = ErrNil
                THEN Done(rq, ErrNil,
                          SetToBag({ProjectRow(r.returning.id, name, description, u,
                                               r.returning.created_at)}))
                ELSE Done(rq, r.err, EmptyBag)]
        /\ UNCHANGED <<task, note, nextTask, nextNote, handled, auth>>

\* GetUserProjects: no check, the query is scoped by the caller's memberships
GetUserProjects(s, u) ==
    /\ Free(s)
    /\ req' = [req EXCEPT ![s] =
          Done(Request("GetUserProjects", "call", u, 0, 0, "", ""),
               ErrNil, RepoGetUserProjects(u))]
    /\ UNCHANGED <<db, handled, auth>>

\* AccessGate that reads the project first and answers ErrNotFound when it is missing
AccessGate_ExistsFirst(rq, next) ==
    IF RepoGetProjectByID(rq.pid).err # ErrNil THEN Done(rq, ErrNotFound, EmptyBag)
    ELSE IF RepoCheckProjectAccess(rq.pid, rq.user) THEN [rq EXCEPT !.pc = next]
    ELSE Done(rq, ErrNoAccess, EmptyBag)

\* AccessGate that does not look at the answer of CheckProjectAccess
AccessGate_Open(rq, next) ==
    [rq EXCEPT !.pc = next]

\* the membership gate: CheckProjectAccess, ErrNoAccess when it answers false
AccessGate(rq, next) ==
    IF RepoCheckProjectAccess(rq.pid, rq.user) THEN [rq EXCEPT !.pc = next]
    ELSE Done(rq, ErrNoAccess, EmptyBag)

GetProjectByID_Check(s, u, pid) ==
    /\ Free(s)
    /\ req' = [req EXCEPT ![s] =
          AccessGate(Request("GetProjectByID", "call", u, pid, 0, "", ""), "read")]
    /\ UNCHANGED <<db, handled, auth>>

GetProjectByID_Read(s) ==
    LET rq == req[s]
        r == RepoGetProjectByID(rq.pid)
    IN  /\ rq.op = "GetProjectByID" /\ rq.pc = "read"
        /\ req' = [req EXCEPT ![s] = Done(rq, r.err, SetToBag(r.rows))]
        /\ UNCHANGED <<db, handled, auth>>

GetProjectMembers_Check(s, u, pid) ==
    /\ Free(s)
    /\ req' = [req EXCEPT ![s] =
          AccessGate(Request("GetProjectMembers", "call", u, pid, 0, "", ""), "read")]
    /\ UNCHANGED <<db, handled, auth>>

GetProjectMembers_Read(s) ==
    LET rq == req[s]
    IN  /\ rq.op = "GetProjectMembers" /\ rq.pc = "read"
        /\ req' = [req EXCEPT ![s] = Done(rq, ErrNil, RepoGetProjectMembers(rq.pid))]
        /\ UNCHANGED <<db, handled, auth>>

\* OwnerGate that asks CheckProjectAccess instead of comparing project.OwnerID
OwnerGate_AnyMember(rq, next) ==
    LET r == RepoGetProjectByID(rq.pid)
    IN  IF r.err # ErrNil THEN Done(rq, r.err, EmptyBag)
        ELSE IF ~RepoCheckProjectAccess(rq.pid, rq.user)
          THEN Done(rq, ErrNotOwner, EmptyBag)
        ELSE [rq EXCEPT !.pc = next]

\* OwnerGate that answers ErrNotOwner when the project row is missing
OwnerGate_MissingIsNotOwner(rq, next) ==
    LET r == RepoGetProjectByID(rq.pid)
    IN  IF r.err # ErrNil \/ \E p \in r.rows : p.owner_id # rq.user
          THEN Done(rq, ErrNotOwner, EmptyBag)
        ELSE [rq EXCEPT !.pc = next]

\* the ownership gate: GetProjectByID, then project.OwnerID != userID is ErrNotOwner
OwnerGate(rq, next) ==
    LET r == RepoGetProjectByID(rq.pid)
    IN  IF r.err # ErrNil THEN Done(rq, r.err, EmptyBag)
        ELSE IF \E p \in r.rows : p.owner_id # rq.user
          THEN Done(rq, ErrNotOwner, EmptyBag)
        ELSE [rq EXCEPT !.pc = next]

AddProjectMember_Check(s, u, pid, target) ==
    /\ Free(s)
    /\ req' = [req EXCEPT ![s] =
          OwnerGate(Request("AddProjectMember", "call", u, pid, target, "", ""),
                    "insert")]
    /\ UNCHANGED <<db, handled, auth>>

AddProjectMember_Insert(s) ==
    LET rq == req[s]
        r == RepoAddProjectMember(rq.pid, rq.arg)
    IN  /\ rq.op = "AddProjectMember" /\ rq.pc = "insert"
        /\ project_member' = r.project_member
        /\ req' = [req EXCEPT ![s] = Done(rq, r.err, EmptyBag)]
        /\ UNCHANGED <<project, task, note, nextProject, nextTask, nextNote, handled, auth>>

\* DeleteProject: no gate in the use case, the DELETE is scoped by owner_id
DeleteProject(s, u, pid) ==
    LET r == RepoDeleteProject(pid, u)
    IN  /\ Free(s)
        /\ project' = r.project
        /\ project_member' = r.project_member
        /\ task' = r.task
        /\ note' = r.note
        /\ req' = [req EXCEPT ![s] =
              Done(Request("DeleteProject", "call", u, pid, 0, "", ""),
                   r.err, EmptyBag)]
        /\ UNCHANGED <<nextProject, nextTask, nextNote, handled, auth>>

RemoveProjectMember_Check(s, u, pid, target) ==
    /\ Free(s)
    /\ req' = [req EXCEPT ![s] =
          OwnerGate(Request("RemoveProjectMember", "call", u, pid, target, "", ""),
                    "delete")]
    /\ UNCHANGED <<db, handled, auth>>

RemoveProjectMember_Delete(s) ==
    LET rq == req[s]
        r == RepoRemoveProjectMember(rq.pid, rq.arg)
    IN  /\ rq.op = "RemoveProjectMember" /\ rq.pc = "delete"
        /\ project_member' = r.project_member
        /\ req' = [req EXCEPT ![s] = Done(rq, r.err, EmptyBag)]
        /\ UNCHANGED <<project, task, note, nextProject, nextTask, nextNote, handled, auth>>

UpdateProject_Check(s, u, pid, name, description) ==
    /\ Free(s)
    /\ req' = [req EXCEPT ![s] =
          OwnerGate(Request("UpdateProject", "call", u, pid, 0, name, description),
                    "update")]
    /\ UNCHANGED <<db, handled, auth>>

UpdateProject_Update(s) ==
    LET rq == req[s]
        r == RepoUpdateProject(rq.pid, rq.name, rq.description, rq.user)
    IN  /\ rq.op = "UpdateProject" /\ rq.pc = "update"
        /\ project' = r.project
        /\ req' = [req EXCEPT ![s] =
              IF r.err # ErrNil THEN Done(rq, r.err, EmptyBag)
              ELSE [rq EXCEPT !.pc = "reread"]]
        /\ UNCHANGED <<project_member, task, note, nextProject, nextTask, nextNote, handled, auth>>

UpdateProject_Reread(s) ==
    LET rq == req[s]
        r == RepoGetProjectByID(rq.pid)
    IN  /\ rq.op = "UpdateProject" /\ rq.pc = "reread"
        /\ req' = [req EXCEPT ![s] = Done(rq, r.err, SetToBag(r.rows))]
        /\ UNCHANGED <<db, handled, auth>>

\* LeaveProject: the owner gets ErrOwnerCannotLeave, anybody else removes the own
\* membership row through the repository's RemoveProjectMember
LeaveGate(rq, next) ==
    LET r == RepoGetProjectByID(rq.pid)
    IN  IF r.err # ErrNil THEN Done(rq, r.err, EmptyBag)
        ELSE IF \E p \in r.rows : p.owner_id = rq.user
          THEN Done(rq, ErrOwnerCannotLeave, EmptyBag)
        ELSE [rq EXCEPT !.pc = next]

LeaveProject_Check(s, u, pid) ==
    /\ Free(s)
    /\ req' = [req EXCEPT ![s] =
          LeaveGate(Request("LeaveProject", "call", u, pid, u, "", ""), "delete")]
    /\ UNCHANGED <<db, handled, auth>>

LeaveProject_Delete(s) ==
    LET rq == req[s]
        r == RepoRemoveProjectMember(rq.pid, rq.user)
    IN  /\ rq.op = "LeaveProject" /\ rq.pc = "delete"
        /\ project_member' = r.project_member
        /\ req' = [req EXCEPT ![s] = Done(rq, r.err, EmptyBag)]
        /\ UNCHANGED <<project, task, note, nextProject, nextTask, nextNote, handled, auth>>

(* -------------------- TaskRepository (SQL statements) ------------------ *)
\* title stands for the updatable columns (title, description, importance, deadline)
TaskRow(id, projectID, userID, title, status) ==
    [id |-> id, project_id |-> projectID, user_id |-> userID, title |-> title,
     status |-> status]

TaskStatuses == {StatusWaiting, StatusInProgress, StatusCompleted}

\* CreateTaskQuery: INSERT under PRIMARY KEY (id), FOREIGN KEY (project_id),
\* FOREIGN KEY (user_id) and CHECK (status IN ...); errors are wrapped with %w
RepoCreateTask(row) ==
    IF row.id \in {t.id : t \in task}
      THEN [err |-> ErrUniqueViolation, task |-> task]
    ELSE IF row.project_id \notin {p.id : p \in project} \/ row.user_id \notin UserIDs
      THEN [err |-> ErrForeignKey, task |-> task]
    ELSE IF row.status \notin TaskStatuses
      THEN [err |-> ErrCheckViolation, task |-> task]
    ELSE [err |-> ErrNil, task |-> task \cup {row}]

\* GetTasksByProjectIDQuery: task JOIN project_member ON project_id
\* WHERE t.project_id = projectID AND pm.user_id = userID
RepoGetTasksByProjectID(projectID, userID) ==
    LET joined(t) == MemberCount(project_member, t.project_id, userID)
    IN  [t \in {x \in task : x.project_id = projectID /\ joined(x) > 0} |-> joined(t)]

\* GetTasksByUserIDQuery: task JOIN project_member ON project_id WHERE pm.user_id
RepoGetTasksByUserID(userID) ==
    LET joined(t) == MemberCount(project_member, t.project_id, userID)
    IN  [t \in {x \in task : joined(x) > 0} |-> joined(t)]

\* TaskScope without the sub-select over project_member: WHERE id = taskID
TaskScope_AnyUser(taskID, userID) ==
    {t \in task : t.id = taskID}

\* TaskScope by the task's creator: WHERE id = taskID AND user_id = userID
TaskScope_ByCreator(taskID, userID) ==
    {t \in task : t.id = taskID /\ t.user_id = userID}

\* the rows the three mutating task statements select:
\* WHERE id = taskID AND project_id IN (SELECT pm.project_id ... WHERE pm.user_id)
TaskScope(taskID, userID) ==
    {t \in task : t.id = taskID /\ t.project_id \in MemberProjects(project_member, userID)}

\* UpdateTaskQuery; the result of ExecContext is dropped, only its error is looked at
RepoUpdateTask(title, taskID, userID) ==
    LET hit == TaskScope(taskID, userID)
    IN  [err |-> ErrNil,
         task |-> (task \ hit) \cup {[t EXCEPT !.title = title] : t \in hit}]

\* RepoUpdateTaskStatus on a table without CHECK (status IN ...)
RepoUpdateTaskStatus_NoCheck(status, taskID, userID) ==
    LET hit == TaskScope(taskID, userID)
    IN  [err |-> ErrNil,
         task |-> (task \ hit) \cup {[t EXCEPT !.status = status] : t \in hit}]

\* UpdateTaskStatusQuery, under CHECK (status IN ...); the result is dropped as well
RepoUpdateTaskStatus(status, taskID, userID) ==
    LET hit == TaskScope(taskID, userID)
    IN  IF hit # {} /\ status \notin TaskStatuses
          THEN [err |-> ErrCheckViolation, task |-> task]
          ELSE [err |-> ErrNil,
                task |-> (task \ hit) \cup {[t EXCEPT !.status = status] : t \in hit}]

\* TaskExistenceForUserQuery: EXISTS(task JOIN project_member ... WHERE t.id AND pm.user_id)
RepoTaskExistsForUser(taskID, userID) ==
    \E t \in task : t.id = taskID /\ MemberCount(project_member, t.project_id, userID) > 0

\* DeleteTaskQuery; the result is dropped
RepoDeleteTaskExec(taskID, userID) ==
    [err |-> ErrNil, task |-> task \ TaskScope(taskID, userID)]

(* ----------------------------- TaskUsecase ----------------------------- *)
\* CreateTask: CheckProjectAccess first; its error is returned as it is
CreateTask_Check(s, u, pid, title, fault) ==
    LET rq == Request("CreateTask", "call", u, pid, 0, title, "")
    IN  /\ Free(s)
        /\ nextTask + Pending("CreateTask") < MaxTasks
        /\ req' = [req EXCEPT ![s] =
              IF fault = "check" THEN Done(rq, ErrConn, EmptyBag)
              ELSE AccessGate(rq, "insert")]
        /\ UNCHANGED <<db, handled, auth>>

\* the task gets a fresh uuid and StatusWaiting
CreateTask_Insert(s) ==
    LET rq == req[s]
        id == nextTask + 1
        r == RepoCreateTask(TaskRow(id, rq.pid, rq.user, rq.name, StatusWaiting))
    IN  /\ rq.op = "CreateTask" /\ rq.pc = "insert"
        /\ nextTask < MaxTasks
        /\ task' = r.task
        /\ nextTask' = id
        /\ req' = [req EXCEPT ![s] = Done([rq EXCEPT !.arg = id], r.err, EmptyBag)]
        /\ UNCHANGED <<project, project_member, note, nextProject, nextNote, handled, auth>>

GetTasksByUserID(s, u) ==
    /\ Free(s)
    /\ req' = [req EXCEPT ![s] =
          Done(Request("GetTasksByUserID", "call", u, 0, 0, "", ""),
               ErrNil, RepoGetTasksByUserID(u))]
    /\ UNCHANGED <<db, handled, auth>>

GetTasksByProjectID_Check(s, u, pid) ==
    /\ Free(s)
    /\ req' = [req EXCEPT ![s] =
          AccessGate(Request("GetTasksByProjectID", "call", u, pid, 0, "", ""), "read")]
    /\ UNCHANGED <<db, handled, auth>>

GetTasksByProjectID_Read(s) ==
    LET rq == req[s]
    IN  /\ rq.op = "GetTasksByProjectID" /\ rq.pc = "read"
        /\ req' = [req EXCEPT ![s] =
              Done(rq, ErrNil, RepoGetTasksByProjectID(rq.pid, rq.user))]
        /\ UNCHANGED <<db, handled, auth>>

\* UpdateTask: no gate in the use case, the repository's error is passed on
UpdateTask(s, u, tid, title) ==
    LET r == RepoUpdateTask(title, tid, u)
    IN  /\ Free(s)
        /\ task' = r.task
        /\ req' = [req EXCEPT ![s] =
              Done(Request("UpdateTask", "call", u, 0, tid, title, ""), r.err, EmptyBag)]
        /\ UNCHANGED <<project, project_member, note, nextProject, nextTask, nextNote, handled, auth>>

UpdateTaskStatus(s, u, tid, status) ==
    LET r == RepoUpdateTaskStatus(status, tid, u)
    IN  /\ Free(s)
        /\ task' = r.task
        /\ req' = [req EXCEPT ![s] =
              Done(Request("UpdateTaskStatus", "call", u, 0, tid, status, ""),
                   r.err, EmptyBag)]
        /\ UNCHANGED <<project, project_member, note, nextProject, nextTask, nextNote, handled, auth>>

\* DeleteTask: the existence query first, sql.ErrNoRows when it answers false
DeleteTask_Exists(s, u, tid) ==
    LET rq == Request("DeleteTask", "call", u, 0, tid, "", "")
    IN  /\ Free(s)
        /\ req' = [req EXCEPT ![s] =
              IF RepoTaskExistsForUser(tid, u) THEN [rq EXCEPT !.pc = "delete"]
              ELSE Done(rq, ErrNoRows, EmptyBag)]
        /\ UNCHANGED <<db, handled, auth>>

DeleteTask_Delete(s) ==
    LET rq == req[s]
        r == RepoDeleteTaskExec(rq.arg, rq.user)
    IN  /\ rq.op = "DeleteTask" /\ rq.pc = "delete"
        /\ task' = r.task
        /\ req' = [req EXCEPT ![s] = Done(rq, r.err, EmptyBag)]
        /\ UNCHANGED <<project, project_member, note, nextProject, nextTask, nextNote, handled, auth>>

(* -------------------- NoteRepository (SQL statements) ------------------ *)
NoteRow(id, projectID, userID, name) ==
    [id |-> id, project_id |-> projectID, user_id |-> userID, name |-> name]

\* createNoteQuery: INSERT under PRIMARY KEY (id) and the two FOREIGN KEYs
RepoCreateNote(row) ==
    IF row.id \in {n.id : n \in note}
      THEN [err |-> ErrUniqueViolation, note |-> note]
    ELSE IF row.project_id \notin {p.id : p \in project} \/ row.user_id \notin UserIDs
      THEN [err |-> ErrForeignKey, note |-> note]
    ELSE [err |-> ErrNil, note |-> note \cup {row}]

\* getAllNotesByProjectQuery: note JOIN project_member ON project_id
\* WHERE n.project_id = projectID AND pm.user_id = userID
RepoGetNotesByProject(projectID, userID) ==
    LET joined(n) == MemberCount(project_member, n.project_id, userID)
    IN  [n \in {x \in note : x.project_id = projectID /\ joined(x) > 0} |-> joined(n)]

\* getAllNotesQuery: note JOIN project_member ON project_id WHERE n.user_id = userID
RepoGetAllNotes(userID) ==
    LET joined(n) ==
            BagCardinality(BagFilter(project_member,
                                     LAMBDA r : r.project_id = n.project_id))
    IN  [n \in {x \in note : x.user_id = userID /\ joined(x) > 0} |-> joined(n)]

\* RepoUpdateNote with a WHERE clause that lacks "AND project_id = $2"
RepoUpdateNote_AnyProject(userID, noteID, projectID, name) ==
    LET hit == {n \in note : /\ n.id = noteID
                             /\ n.project_id \in MemberProjects(project_member, userID)}
    IN  IF hit = {} THEN [err |-> ErrNotFound, note |-> note]
        ELSE [err |-> ErrNil,
              note |-> (note \ hit) \cup {[n EXCEPT !.name = name] : n \in hit}]

\* updateNoteQuery: WHERE id = noteID AND project_id = projectID AND project_id IN
\* (the caller's projects); zero rows is ErrNotFound
RepoUpdateNote(userID, noteID, projectID, name) ==
    LET hit == {n \in note : /\ n.id = noteID
                             /\ n.project_id = projectID
                             /\ n.project_id \in MemberProjects(project_member, userID)}
    IN  IF hit = {} THEN [err |-> ErrNotFound, note |-> note]
        ELSE [err |-> ErrNil,
              note |-> (note \ hit) \cup {[n EXCEPT !.name = name] : n \in hit}]

\* deleteNoteQuery: WHERE id = noteID AND project_id IN (the caller's projects);
\* zero rows is ErrNotFound
RepoDeleteNote(userID, noteID) ==
    LET hit == {n \in note : /\ n.id = noteID
                             /\ n.project_id \in MemberProjects(project_member, userID)}
    IN  IF hit = {} THEN [err |-> ErrNotFound, note |-> note]
        ELSE [err |-> ErrNil, note |-> note \ hit]

(* ----------------------------- NoteUsecase ----------------------------- *)
GetAllNotes(s, u) ==
    /\ Free(s)
    /\ req' = [req EXCEPT ![s] =
          Done(Request("GetAllNotes", "call", u, 0, 0, "", ""),
               ErrNil, RepoGetAllNotes(u))]
    /\ UNCHANGED <<db, handled, auth>>

GetNotesByProject_Check(s, u, pid) ==
    /\ Free(s)
    /\ req' = [req EXCEPT ![s] =
          AccessGate(Request("GetNotesByProject", "call", u, pid, 0, "", ""), "read")]
    /\ UNCHANGED <<db, handled, auth>>

GetNotesByProject_Read(s) ==
    LET rq == req[s]
    IN  /\ rq.op = "GetNotesByProject" /\ rq.pc = "read"
        /\ req' = [req EXCEPT ![s] =
              Done(rq, ErrNil, RepoGetNotesByProject(rq.pid, rq.user))]
        /\ UNCHANGED <<db, handled, auth>>

\* CreateNote: CheckProjectAccess first; its error is returned as it is
CreateNote_Check(s, u, pid, name, fault) ==
    LET rq == Request("CreateNote", "call", u, pid, 0, name, "")
    IN  /\ Free(s)
        /\ nextNote + Pending("CreateNote") < MaxNotes
        /\ req' = [req EXCEPT ![s] =
              IF fault = "check" THEN Done(rq, ErrConn, EmptyBag)
              ELSE AccessGate(rq, "insert")]
        /\ UNCHANGED <<db, handled, auth>>

CreateNote_Insert(s) ==
    LET rq == req[s]
        id == nextNote + 1
        r == RepoCreateNote(NoteRow(id, rq.pid, rq.user, rq.name))
    IN  /\ rq.op = "CreateNote" /\ rq.pc = "insert"
        /\ nextNote < MaxNotes
        /\ note' = r.note
        /\ nextNote' = id
        /\ req' = [req EXCEPT ![s] = Done([rq EXCEPT !.arg = id], r.err, EmptyBag)]
        /\ UNCHANGED <<project, project_member, task, nextProject, nextTask, handled, auth>>

UpdateNote(s, u, nid, pid, name) ==
    LET r == RepoUpdateNote(u, nid, pid, name)
    IN  /\ Free(s)
        /\ note' = r.note
        /\ req' = [req EXCEPT ![s] =
              Done(Request("UpdateNote", "call", u, pid, nid, name, ""), r.err, EmptyBag)]
        /\ UNCHANGED <<project, project_member, task, nextProject, nextTask, nextNote, handled, auth>>

DeleteNote(s, u, nid) ==
    LET r == RepoDeleteNote(u, nid)
    IN  /\ Free(s)
        /\ note' = r.note
        /\ req' = [req EXCEPT ![s] =
              Done(Request("DeleteNote", "call", u, 0, nid, "", ""), r.err, EmptyBag)]
        /\ UNCHANGED <<project, project_member, task, nextProject, nextTask, nextNote, handled, auth>>

(* ------------------------- tokens and revocation ----------------------- *)
\* A session token: the user id and the expiry it was signed with.
Token(userID, exp) == [user |-> userID, exp |-> exp]

\* Tokenator.CreateJWT: a token for userID that expires TokenLifeSpan from now
CreateJWT(userID) == Token(userID, now + TokenLifeSpan)

\* Tokenator.ParseJWT: the claims of a token that has not expired, an error otherwise
ParseJWT(token) ==
    IF now < token.exp THEN [err |-> ErrNil, UserID |-> token.user]
    ELSE [err |-> ErrInvalidToken, UserID |-> 0]

\* the tokens CreateJWT has handed out up to now
IssuedTokens(U) == {Token(u, t + TokenLifeSpan) : u \in U, t \in 1..now}

\* a request without the token cookie
NoCookie == Token(0, 0)

\* Redis SADD: adds the member; a key that did not exist is created without a
\* time to live, the time to live of an existing key stays as it is
SAdd(key, member) == [key EXCEPT !.members = @ \cup {member}]

\* Redis EXPIRE: sets the time to live of an existing key; on a key that does
\* not exist it does nothing, and that is not an error
Expire(key, expiration) ==
    IF key.members = {} THEN key ELSE [key EXCEPT !.deadline = now + expiration]

\* Redis SISMEMBER
SIsMember(key, member) == member \in key.members

\* Redis removes a key when its time to live has run out
Expired(key, time) == key.deadline # NoTTL /\ key.deadline <= time

\* one tick of the clock
Tick ==
    /\ now < MaxTime
    /\ now' = now + 1
    /\ blacklist' = [u \in Users |->
          IF Expired(blacklist[u], now + 1) THEN NoKey ELSE blacklist[u]]
    /\ UNCHANGED <<db, req, handled, user>>

\* AuthUsecase.Logout: ParseJWT, then AuthRepository.AddToBlacklist, which is SAdd
\* followed by Expire with the token life span, each a call of its own
Logout_SAdd(s, token, fault) ==
    LET rq == Request("Logout", "call", token.user, 0, token.exp, "", "")
        claims == ParseJWT(token)
    IN  /\ Free(s)
        /\ blacklist' =
              IF claims.err = ErrNil /\ fault = "none"
                THEN [blacklist EXCEPT ![claims.UserID] = SAdd(@, token)]
                ELSE blacklist
        /\ req' = [req EXCEPT ![s] =
              IF claims.err # ErrNil THEN Done(rq, ErrInvalidToken, EmptyBag)
              ELSE IF fault # "none" THEN Done(rq, ErrRedis, EmptyBag)
              ELSE [rq EXCEPT !.pc = "expire"]]
        /\ UNCHANGED <<db, handled, user, now>>

Logout_Expire(s, fault) ==
    LET rq == req[s]
    IN  /\ rq.op = "Logout" /\ rq.pc = "expire"
        /\ blacklist' =
              IF fault = "none"
                THEN [blacklist EXCEPT ![rq.user] = Expire(@, TokenLifeSpan)]
                ELSE blacklist
        /\ req' = [req EXCEPT ![s] =
              Done(rq, IF fault = "none" THEN ErrNil ELSE ErrRedis, EmptyBag)]
        /\ UNCHANGED <<db, handled, user, now>>

\* AuthRepository.IsBlacklisted
IsBlacklisted(userID, token) == SIsMember(blacklist[userID], token)

\* what SendError writes: the status code and the message
SendError(status, message) == SetToBag({[status |-> status, error |-> message]})

\* AuthMiddleware with the revocation store given: the cookie, ParseJWT,
\* IsBlacklisted, and then the protected handler
AuthMiddleware(s, cookie, fault) ==
    LET rq == Request("AuthMiddleware", "call", cookie.user, 0, cookie.exp, "", "")
        claims == ParseJWT(cookie)
    IN  /\ Free(s)
        /\ req' = [req EXCEPT ![s] =
              IF cookie = NoCookie
                THEN Done(rq, ErrNil,
                          SendError(StatusUnauthorized, "Token cookie is required"))
              ELSE IF claims.err # ErrNil
                THEN Done(rq, ErrNil, SendError(StatusUnauthorized, "Invalid token"))
              ELSE IF fault # "none"
                THEN Done(rq, ErrNil,
                          SendError(StatusInternalServerError, "Internal server error"))
              ELSE IF IsBlacklisted(claims.UserID, cookie)
                THEN Done(rq, ErrNil,
                          SendError(StatusUnauthorized, "Token is blacklisted"))
              ELSE [rq EXCEPT !.pc = "next"]]
        /\ UNCHANGED <<db, handled, auth>>

\* next.ServeHTTP: the protected handler runs for the principal of the token
ServeHTTP(s) ==
    LET rq == req[s]
    IN  /\ rq.op = "AuthMiddleware" /\ rq.pc = "next"
        /\ req' = [req EXCEPT ![s] = Done(rq, ErrNil, EmptyBag)]
        /\ UNCHANGED <<db, handled, auth>>

\* outcomes of the Redis client during a call
RedisFaults == {"none", "redis"}

(* ----------------------------- registration ---------------------------- *)
\* logins a registration can ask for: the one of user 1 and fresh ones
Logins == {1} \cup (NumUsers + 1 .. NumUsers + MaxRegistered)

\* outcomes of the infrastructure during AuthRepository.CreateUser and CreateJWT
RegisterFaults == {"none", "fail"}

\* createUserQuery: INSERT under UNIQUE (login); 23505 is ErrIsDuplicateKey, any
\* other error is wrapped and returned
RepoCreateUser(id, login, fault) ==
    IF fault # "none" THEN [err |-> ErrConn, user |-> user]
    ELSE IF login \in {u.login : u \in user} \/ id \in UserIDs
      THEN [err |-> ErrIsDuplicateKey, user |-> user]
    ELSE [err |-> ErrNil, user |-> user \cup {UserRow(id, login)}]

\* the default project of a registration: its name and description
DefaultName == "default"
DefaultDescription == "start"

\* AuthUsecase.Register: CreateUser; an error ends the registration
Register_User(s, login, fault) ==
    LET id == Cardinality(user) + 1
        r == RepoCreateUser(id, login, fault)
        rq == Request("Register", "call", id, 0, login, DefaultName, DefaultDescription)
    IN  /\ Free(s)
        /\ Cardinality(user) < NumUsers + MaxRegistered
        /\ nextProject + Pending("Register") < MaxProjects
        /\ user' = r.user
        /\ req' = [req EXCEPT ![s] =
              IF r.err # ErrNil THEN Done([rq EXCEPT !.user = 0], r.err, EmptyBag)
              ELSE [rq EXCEPT !.pc = "project"]]
        /\ UNCHANGED <<db, handled, now, blacklist>>

\* Register_Project that ends the registration when the default project fails
Register_Project_Abort(s, fault) ==
    LET rq == req[s]
        id == nextProject + 1
        r == RepoCreateProject(fault, id, rq.name, rq.description, rq.user)
    IN  /\ rq.op = "Register" /\ rq.pc = "project"
        /\ nextProject < MaxProjects
        /\ project' = r.project
        /\ project_member' = r.project_member
        /\ nextProject' = IF r.err = ErrNil THEN id ELSE nextProject
        /\ req' = [req EXCEPT ![s] =
              IF r.err = ErrNil THEN [rq EXCEPT !.pc = "token", !.pid = id]
              ELSE Done(rq, r.err, EmptyBag)]
        /\ UNCHANGED <<task, note, nextTask, nextNote, handled, auth>>

\* the default project through ProjectRepository.CreateProject; its error is
\* logged and the registration goes on
Register_Project(s, fault) ==
    LET rq == req[s]
        id == nextProject + 1
        r == RepoCreateProject(fault, id, rq.name, rq.description, rq.user)
    IN  /\ rq.op = "Register" /\ rq.pc = "project"
        /\ nextProject < MaxProjects
        /\ project' = r.project
        /\ project_member' = r.project_member
        /\ nextProject' = IF r.err = ErrNil THEN id ELSE nextProject
        /\ req' = [req EXCEPT ![s] =
              [rq EXCEPT !.pc = "token", !.pid = IF r.err = ErrNil THEN id ELSE 0]]
        /\ UNCHANGED <<task, note, nextTask, nextNote, handled, auth>>

\* CreateJWT for the new user: its error is returned, otherwise the token
Register_Token(s, fault) ==
    LET rq == req[s]
    IN  /\ rq.op = "Register" /\ rq.pc = "token"
        /\ req' = [req EXCEPT ![s] =
              IF fault # "none" THEN Done(rq, ErrSign, EmptyBag)
              ELSE Done(rq, ErrNil, SetToBag({CreateJWT(rq.user)}))]
        /\ UNCHANGED <<db, handled, auth>>

(* ------------------------------ transport ------------------------------ *)
\* HandleError: the switch over errors.Is, first case that matches
HandleError(err) ==
    IF Is(err, NewError(ErrNoAccess)) THEN StatusForbidden
    ELSE IF Is(err, NewError(ErrNotOwner)) THEN StatusForbidden
    ELSE IF Is(err, NewError(ErrNotFound)) THEN StatusNotFound
    ELSE IF Is(err, NewError(ErrInvalidID)) THEN StatusBadRequest
    ELSE StatusInternalServerError

\* TaskHandler.DeleteTask: any error of the use case is sent as 500, nil as 200
TaskHandlerDeleteTask(err) ==
    IF err # ErrNil THEN StatusInternalServerError ELSE StatusOK

\* a handler calls HandleError with the error it has in hand
HandleErrorCall ==
    /\ ~handled.sent
    /\ handled' = [handled EXCEPT !.sent = TRUE, !.code = HandleError(handled.err)]
    /\ UNCHANGED <<db, req, auth>>

\* the errors handlers hand over: nil, the sentinels of errs and errors of the
\* infrastructure, each also wrapped with %w and joined with another one
ErrorTexts == {ErrNoAccess, ErrNotOwner, ErrOwnerCannotLeave, ErrNotFound, ErrInvalidID,
               ErrNoRows, ErrConn}
ErrorValues ==
    {NilError} \cup {NewError(t) : t \in ErrorTexts}
               \cup {Errorf(NewError(t)) : t \in ErrorTexts}
               \cup {Join(NewError(t), NewError(u)) : t, u \in ErrorTexts}

HandleErrorInit ==
    /\ project = {}
    /\ project_member = EmptyBag
    /\ task = {}
    /\ note = {}
    /\ nextProject = 0
    /\ nextTask = 0
    /\ nextNote = 0
    /\ req = [s \in Slots |-> Idle]
    /\ handled \in {[err |-> e, sent |-> FALSE, code |-> 0] : e \in ErrorValues}
    /\ user = {UserRow(u, u) : u \in Users}
    /\ now = 1
    /\ blacklist = [u \in Users |-> NoKey]

\* HandleError over every error value
HandleErrorSpec == HandleErrorInit /\ [][HandleErrorCall]_vars

(* ------------------------------ the system ----------------------------- *)
\* The steps of goroutine s, by table and by kind.  U are the principals, P the
\* project ids, T the target users, N the names, D the descriptions and S the
\* statuses the requests carry.
ProjectCreate(s, U, N, D) ==
    \E u \in U, name \in N, description \in D, fault \in Faults :
        CreateProject(s, u, name, description, fault)

MemberAddRemove(s, U, P, T) ==
    \/ \E u \in U, pid \in P, target \in T : AddProjectMember_Check(s, u, pid, target)
    \/ AddProjectMember_Insert(s)
    \/ \E u \in U, pid \in P, target \in T : RemoveProjectMember_Check(s, u, pid, target)
    \/ RemoveProjectMember_Delete(s)

MemberLeave(s, U, P) ==
    \/ \E u \in U, pid \in P : LeaveProject_Check(s, u, pid)
    \/ LeaveProject_Delete(s)

ProjectUpdate(s, U, P, N, D) ==
    \/ \E u \in U, pid \in P, name \in N, description \in D :
          UpdateProject_Check(s, u, pid, name, description)
    \/ UpdateProject_Update(s)
    \/ UpdateProject_Reread(s)

ProjectDelete(s, U, P) ==
    \E u \in U, pid \in P : DeleteProject(s, u, pid)

ProjectList(s, U) ==
    \E u \in U : GetUserProjects(s, u)

ProjectRead(s, U, P) ==
    \/ \E u \in U, pid \in P : GetProjectByID_Check(s, u, pid)
    \/ GetProjectByID_Read(s)
    \/ \E u \in U, pid \in P : GetProjectMembers_Check(s, u, pid)
    \/ GetProjectMembers_Read(s)

TaskCreate(s, U, P, N) ==
    \/ \E u \in U, pid \in P, title \in N, fault \in CheckFaults :
          CreateTask_Check(s, u, pid, title, fault)
    \/ CreateTask_Insert(s)

TaskWrite(s, U, N, S) ==
    \/ \E u \in U, tid \in TaskIDs, title \in N : UpdateTask(s, u, tid, title)
    \/ \E u \in U, tid \in TaskIDs, status \in S : UpdateTaskStatus(s, u, tid, status)
    \/ \E u \in U, tid \in TaskIDs : DeleteTask_Exists(s, u, tid)
    \/ DeleteTask_Delete(s)

TaskList(s, U) ==
    \E u \in U : GetTasksByUserID(s, u)

TaskRead(s, U, P) ==
    \/ \E u \in U, pid \in P : GetTasksByProjectID_Check(s, u, pid)
    \/ GetTasksByProjectID_Read(s)

NoteCreate(s, U, P, N) ==
    \/ \E u \in U, pid \in P, name \in N, fault \in CheckFaults :
          CreateNote_Check(s, u, pid, name, fault)
    \/ CreateNote_Insert(s)

NoteWrite(s, U, P, N) ==
    \/ \E u \in U, nid \in NoteIDs, pid \in P, name \in N : UpdateNote(s, u, nid, pid, name)
    \/ \E u \in U, nid \in NoteIDs : DeleteNote(s, u, nid)

NoteList(s, U) ==
    \E u \in U : GetAllNotes(s, u)

NoteRead(s, U, P) ==
    \/ \E u \in U, pid \in P : GetNotesByProject_Check(s, u, pid)
    \/ GetNotesByProject_Read(s)

\* the whole backend: every goroutine, every operation, every argument
Next ==
    \/ Tick
    \/ \E s \in Slots :
        \/ \E login \in Logins, fault \in RegisterFaults : Register_User(s, login, fault)
        \/ \E fault \in Faults : Register_Project(s, fault)
        \/ \E fault \in RegisterFaults : Register_Token(s, fault)
        \/ \E token \in IssuedTokens(Users), fault \in RedisFaults :
              Logout_SAdd(s, token, fault)
        \/ \E fault \in RedisFaults : Logout_Expire(s, fault)
        \/ \E cookie \in IssuedTokens(Users) \cup {NoCookie}, fault \in RedisFaults :
              AuthMiddleware(s, cookie, fault)
        \/ ServeHTTP(s)
        \/ ProjectCreate(s, Users, Names, Descriptions)
        \/ MemberAddRemove(s, Users, ProjectIDs, Users)
        \/ MemberLeave(s, Users, ProjectIDs)
        \/ ProjectUpdate(s, Users, ProjectIDs, Names, Descriptions)
        \/ ProjectDelete(s, Users, ProjectIDs)
        \/ ProjectList(s, Users)
        \/ ProjectRead(s, Users, ProjectIDs)
        \/ TaskCreate(s, Users, ProjectIDs, Names)
        \/ TaskWrite(s, Users, Names, TaskStatuses)
        \/ TaskList(s, Users)
        \/ TaskRead(s, Users, ProjectIDs)
        \/ NoteCreate(s, Users, ProjectIDs, Names)
        \/ NoteWrite(s, Users, ProjectIDs, Names)
        \/ NoteList(s, Users)
        \/ NoteRead(s, Users, ProjectIDs)

Spec == Init /\ [][Next]_vars

(* ----------------------------- projections ----------------------------- *)
\* Spec is too large to enumerate.  Each projection below keeps the operations
\* that write or read the tables its claims are about, and leaves out operations
\* that cannot change them.  "Seq" handles one request at a time over MaxProjects
\* projects; "Conc" interleaves the statements of MaxInflight requests over the
\* first project.  Users are interchangeable, so the k-th project is created by
\* one of the users 1..k.
SeqSlots == {1}
FirstProject == {1}
OneProject == nextProject' <= 1
OneResource == nextTask' + nextNote' <= 1
Creators == {u \in Users : u <= nextProject + 1}
\* callers of the membership changes where only their effect matters: a caller who
\* owns no project returns at the ownership gate
Owners == {p.owner_id : p \in project}
OneName == {"a"}
OtherName == {"b"}
OneDescription == {""}

\* project and membership writes, one request at a time
ProjectsSeqNext ==
    \E s \in SeqSlots :
        \/ ProjectCreate(s, Creators, OneName, OneDescription)
        \/ MemberAddRemove(s, Users, ProjectIDs, Users)
        \/ MemberLeave(s, Users, ProjectIDs)
        \/ ProjectUpdate(s, Users, ProjectIDs, OtherName, OneDescription)
        \/ ProjectDelete(s, Users, ProjectIDs)

ProjectsSeq == Init /\ [][ProjectsSeqNext]_vars

\* project and membership writes, interleaved
ProjectsConcNext ==
    \E s \in Slots :
        \/ ProjectCreate(s, Creators, OneName, OneDescription) /\ OneProject
        \/ MemberAddRemove(s, Users, FirstProject, Users)
        \/ MemberLeave(s, Users, FirstProject)
        \/ ProjectUpdate(s, Users, FirstProject, OtherName, OneDescription)
        \/ ProjectDelete(s, Users, FirstProject)

ProjectsConc == Init /\ [][ProjectsConcNext]_vars

\* the gated reads over projects, members, tasks and notes, one request at a time
AccessSeqNext ==
    \E s \in SeqSlots :
        \/ ProjectCreate(s, Creators, OneName, OneDescription)
        \/ MemberAddRemove(s, Owners, ProjectIDs, Users)
        \/ TaskCreate(s, Users, ProjectIDs, OneName)
        \/ NoteCreate(s, Users, ProjectIDs, OneName)
        \/ ProjectList(s, Users)
        \/ ProjectRead(s, Users, ProjectIDs)
        \/ TaskRead(s, Users, ProjectIDs)
        \/ NoteRead(s, Users, ProjectIDs)

AccessSeq == Init /\ [][AccessSeqNext]_vars

\* task and note writes under membership changes, one request at a time
TasksSeqNext ==
    \E s \in SeqSlots :
        \/ ProjectCreate(s, Creators, OneName, OneDescription)
        \/ MemberAddRemove(s, Owners, ProjectIDs, Users)
        \/ ProjectDelete(s, Users, ProjectIDs)
        \/ TaskCreate(s, Users, ProjectIDs, OneName) /\ OneResource
        \/ TaskWrite(s, Users, OtherName, {StatusCompleted})
        \/ NoteCreate(s, Users, ProjectIDs, OneName) /\ OneResource
        \/ NoteWrite(s, Users, ProjectIDs, OtherName)

TasksSeq == Init /\ [][TasksSeqNext]_vars

\* task and note writes under membership changes, interleaved
TasksConcNext ==
    \E s \in Slots :
        \/ ProjectCreate(s, Creators, OneName, OneDescription) /\ OneProject
        \/ MemberAddRemove(s, Owners, FirstProject, Users)
        \/ TaskCreate(s, Users, FirstProject, OneName) /\ OneResource
        \/ TaskWrite(s, Users, OtherName, {StatusCompleted})
        \/ NoteCreate(s, Users, FirstProject, OneName) /\ OneResource
        \/ NoteWrite(s, Users, FirstProject, OtherName)

TasksConc == Init /\ [][TasksConcNext]_vars

\* notes and their lists under membership changes, one request at a time
NotesSeqNext ==
    \E s \in SeqSlots :
        \/ ProjectCreate(s, Creators, OneName, OneDescription)
        \/ MemberAddRemove(s, Owners, ProjectIDs, Users)
        \/ NoteCreate(s, Users, ProjectIDs, OneName)
        \/ NoteList(s, Users)
        \/ NoteRead(s, Users, ProjectIDs)

NotesSeq == Init /\ [][NotesSeqNext]_vars

\* sessions of the first user: logouts, requests through the middleware and the
\* clock, interleaved
FirstUser == {1}

SessionsNext ==
    \/ \E s \in Slots :
          \/ \E token \in IssuedTokens(FirstUser), fault \in RedisFaults :
                Logout_SAdd(s, token, fault)
          \/ \E fault \in RedisFaults : Logout_Expire(s, fault)
          \/ \E cookie \in IssuedTokens(FirstUser) \cup {NoCookie}, fault \in RedisFaults :
                AuthMiddleware(s, cookie, fault)
          \/ ServeHTTP(s)
    \/ Tick

Sessions == Init /\ [][SessionsNext]_vars

\* projects created and read back while the clock runs, interleaved
ReadBackNext ==
    \/ \E s \in Slots :
          \/ ProjectCreate(s, Creators, OneName, Descriptions)
          \/ ProjectRead(s, Owners, ProjectIDs)
    \/ Tick

ReadBack == Init /\ [][ReadBackNext]_vars

\* status values a request can carry: the three of the schema and two others
AnyStatuses == TaskStatuses \cup {"done", ""}

\* tasks of the first project and their status, one request at a time
StatusSeqNext ==
    \E s \in SeqSlots :
        \/ ProjectCreate(s, Creators, OneName, OneDescription) /\ OneProject
        \/ MemberAddRemove(s, Owners, FirstProject, Users)
        \/ TaskCreate(s, Users, FirstProject, OneName)
        \/ TaskWrite(s, Users, OtherName, AnyStatuses)

StatusSeq == Init /\ [][StatusSeqNext]_vars

\* registrations next to project creations of the users there are, interleaved
RegistrationNext ==
    \E s \in Slots :
        \/ \E login \in Logins, fault \in RegisterFaults : Register_User(s, login, fault)
        \/ \E fault \in Faults : Register_Project(s, fault)
        \/ \E fault \in RegisterFaults : Register_Token(s, fault)
        \/ ProjectCreate(s, FirstUser, OneName, OneDescription)

Registration == Init /\ [][RegistrationNext]_vars

\* tasks and notes of one project under membership changes, leaves and the
\* deletion of the project, interleaved
ContentConcNext ==
    \E s \in Slots :
        \/ ProjectCreate(s, Creators, OneName, OneDescription) /\ OneProject
        \/ MemberAddRemove(s, Owners, FirstProject, Users)
        \/ MemberLeave(s, Users, FirstProject)
        \/ ProjectDelete(s, Owners, FirstProject)
        \/ TaskCreate(s, Users, FirstProject, OneName) /\ OneResource
        \/ TaskWrite(s, Users, OtherName, {StatusCompleted})
        \/ NoteCreate(s, Users, FirstProject, OneName) /\ OneResource
        \/ NoteWrite(s, Users, FirstProject, OtherName)

ContentConc == Init /\ [][ContentConcNext]_vars

(* ------------------------------- claims -------------------------------- *)
\* the membership rows of user uid in project pid
RowsOf(pid, uid) ==
    BagFilter(project_member, LAMBDA r : r.project_id = pid /\ r.user_id = uid)

\* the membership rows of project pid with role 'owner'
OwnerRows(pid) ==
    BagFilter(project_member, LAMBDA r : r.project_id = pid /\ r.role = RoleOwner)

\* goroutine s has returned from operation op
Returned(s, op) == req[s].pc = "done" /\ req[s].op = op

\* C1: in every reachable state every existing project has exactly one membership
\* row with role 'owner', and the user of that row is the project's owner_id.
C1_OneOwnerRow ==
    \A p \in project :
        /\ BagCardinality(OwnerRows(p.id)) = 1
        /\ \A r \in BagToSet(OwnerRows(p.id)) : r.user_id = p.owner_id

\* a project that has a plain member, after its owner has been refused the removal
\* of the owner's own row and some member has been removed or has left
C1_Witness ==
    \E p \in project, s1, s2 \in Slots :
        /\ \E r \in BagToSet(project_member) : r.project_id = p.id /\ r.role = RoleMember
        /\ Returned(s1, "RemoveProjectMember") /\ req[s1].pid = p.id
        /\ req[s1].user = p.owner_id /\ req[s1].arg = p.owner_id
        /\ req[s2].op \in {"LeaveProject", "RemoveProjectMember", "AddProjectMember"}
        /\ req[s2].pc = "done" /\ req[s2].err = ErrNil /\ req[s2].pid = p.id

\* goroutine s takes a new request in this step (and executes its first statement)
Takes(s) == Free(s) /\ req'[s] # req[s]

GatedReads == {"GetProjectByID", "GetProjectMembers", "GetTasksByProjectID",
               "GetNotesByProject"}

\* C2: the membership gate of GetProjectByID, GetProjectMembers, GetTasksByProjectID
\* and GetNotesByProject lets principal u through for project p iff a membership
\* row (p, u) exists, whatever its role; without such a row the call returns
\* ErrNoAccess and no data.
C2_MembershipGate ==
    [][\A s \in Slots :
        (Takes(s) /\ req'[s].op \in GatedReads) =>
            LET hasRow == \E r \in BagToSet(project_member) :
                              r.project_id = req'[s].pid /\ r.user_id = req'[s].user
            IN  /\ hasRow <=> req'[s].pc = "read"
                /\ ~hasRow => /\ req'[s].pc = "done"
                              /\ req'[s].err = ErrNoAccess
                              /\ req'[s].out = EmptyBag]_vars

\* a plain member has read the tasks of the project, and got some
C2_Witness ==
    \E s \in Slots :
        /\ Returned(s, "GetTasksByProjectID")
        /\ req[s].err = ErrNil /\ req[s].out # EmptyBag
        /\ MemberRow(req[s].pid, req[s].user, RoleMember) \in BagToSet(project_member)

OwnerGated == {"AddProjectMember", "RemoveProjectMember", "UpdateProject"}

\* C3: for an existing project p, AddProjectMember, RemoveProjectMember and
\* UpdateProject pass the ownership gate iff the principal is p's owner_id; any
\* other principal, a plain member included, gets ErrNotOwner, and the project
\* and project_member tables stay as they are.
C3_OwnershipGate ==
    [][\A s \in Slots : \A p \in project :
        (Takes(s) /\ req'[s].op \in OwnerGated /\ req'[s].pid = p.id) =>
            /\ req'[s].user = p.owner_id <=> req'[s].pc \in {"insert", "delete", "update"}
            /\ req'[s].user # p.owner_id =>
                  /\ req'[s].pc = "done"
                  /\ req'[s].err = ErrNotOwner
                  /\ project' = project
                  /\ project_member' = project_member]_vars

\* a plain member of the project has been refused with ErrNotOwner
C3_Witness ==
    \E s \in Slots :
        /\ req[s].pc = "done" /\ req[s].op \in OwnerGated
        /\ req[s].err = ErrNotOwner
        /\ MemberRow(req[s].pid, req[s].user, RoleMember) \in BagToSet(project_member)

\* C4: DeleteProject by a principal who is a member of the project but not its
\* owner fails with ErrNotOwner, and the project, its memberships, tasks and notes
\* all stay in the store.
C4_DeleteByMemberIsNotOwner ==
    [][\A s \in Slots : \A p \in project :
        (/\ Takes(s) /\ req'[s].op = "DeleteProject" /\ req'[s].pid = p.id
         /\ req'[s].user # p.owner_id
         /\ RowsOf(p.id, req'[s].user) # EmptyBag) =>
            /\ req'[s].err = ErrNotOwner
            /\ project' = project /\ project_member' = project_member
            /\ task' = task /\ note' = note]_vars

\* goroutine s executes a statement in this step
Steps(s) == req'[s] # req[s]

ResourceWrites == {"UpdateTask", "UpdateTaskStatus", "DeleteTask", "UpdateNote",
                   "DeleteNote"}

\* C5: a step of UpdateTask, UpdateTaskStatus, DeleteTask, UpdateNote or DeleteNote
\* with principal u changes or removes a task or a note only if u holds a
\* membership row for its project in the state the statement executes in; the
\* tasks and notes of every other project stay as they are.
C5_WriteNeedsMembership ==
    [][\A s \in Slots :
        (Steps(s) /\ req'[s].op \in ResourceWrites) =>
            /\ \A t \in task \ task' : RowsOf(t.project_id, req'[s].user) # EmptyBag
            /\ \A n \in note \ note' : RowsOf(n.project_id, req'[s].user) # EmptyBag
            /\ task' \ task \subseteq
                  {[t EXCEPT !.title = req'[s].name] : t \in task} \cup
                  {[t EXCEPT !.status = req'[s].name] : t \in task}
            /\ note' \ note \subseteq {[n EXCEPT !.name = req'[s].name] : n \in note}]_vars

\* DeleteTask has returned without an error, the task is still there, and the
\* caller holds no membership row for its project: the membership went away
\* between the existence query and the DELETE
C5_Witness ==
    \E s \in Slots : \E t \in task :
        /\ Returned(s, "DeleteTask") /\ req[s].err = ErrNil
        /\ req[s].arg = t.id
        /\ RowsOf(t.project_id, req[s].user) = EmptyBag

\* C6: a task created by one member can be updated, status-updated and deleted by
\* any other current member of its project: UpdateTask and UpdateTaskStatus return
\* nil and the row takes the requested value; DeleteTask passes the existence
\* query and its DELETE removes the row.
C6_AnyMemberWrites ==
    [][\A s \in Slots : \A t \in task :
        (/\ Steps(s) /\ req'[s].arg = t.id
         /\ req'[s].user # t.user_id
         /\ RowsOf(t.project_id, req'[s].user) # EmptyBag) =>
            /\ req'[s].op = "UpdateTask" =>
                  /\ req'[s].pc = "done" /\ req'[s].err = ErrNil
                  /\ task' = (task \ {t}) \cup {[t EXCEPT !.title = req'[s].name]}
            /\ req'[s].op = "UpdateTaskStatus" =>
                  /\ req'[s].pc = "done" /\ req'[s].err = ErrNil
                  /\ task' = (task \ {t}) \cup {[t EXCEPT !.status = req'[s].name]}
            /\ (req'[s].op = "DeleteTask" /\ Free(s)) =>
                  /\ req'[s].pc = "delete" /\ task' = task
            /\ (req'[s].op = "DeleteTask" /\ ~Free(s)) =>
                  /\ req'[s].pc = "done" /\ req'[s].err = ErrNil
                  /\ task' = task \ {t}]_vars

\* the owner of the project has updated a task that a plain member created, and
\* the task carries the owner's title
C6_Witness ==
    \E s \in Slots : \E t \in task : \E p \in project :
        /\ Returned(s, "UpdateTask") /\ req[s].err = ErrNil
        /\ req[s].arg = t.id /\ t.title = req[s].name
        /\ p.id = t.project_id /\ p.owner_id = req[s].user
        /\ t.user_id # req[s].user
        /\ MemberRow(p.id, t.user_id, RoleMember) \in BagToSet(project_member)

\* C7: an UpdateTask or UpdateTaskStatus whose statement affects zero rows (no
\* such task, or the caller is not a member of its project) returns ErrNotFound.
C7_ZeroRowsIsNotFound ==
    [][\A s \in Slots :
        (/\ Takes(s) /\ req'[s].op \in {"UpdateTask", "UpdateTaskStatus"}
         /\ TaskScope(req'[s].arg, req'[s].user) = {}) =>
            req'[s].err = ErrNotFound]_vars

\* C8: a RemoveProjectMember whose target is the owner of the project never
\* deletes a membership row and never returns nil, whoever calls it.
C8_OwnerRowStays ==
    [][\A s \in Slots : \A p \in project :
        (/\ Steps(s) /\ req'[s].op = "RemoveProjectMember"
         /\ req'[s].pid = p.id /\ req'[s].arg = p.owner_id) =>
            /\ project_member' = project_member
            /\ req'[s].pc = "done" => req'[s].err # ErrNil]_vars

\* the owner has asked to remove the owner, the DELETE has run and returned
\* ErrNotFound, and the owner's row is in place
C8_Witness ==
    \E s \in Slots : \E p \in project :
        /\ Returned(s, "RemoveProjectMember") /\ req[s].err = ErrNotFound
        /\ req[s].pid = p.id /\ req[s].user = p.owner_id /\ req[s].arg = p.owner_id
        /\ MemberRow(p.id, p.owner_id, RoleOwner) \in BagToSet(project_member)

\* C9: LeaveProject by the owner of the project returns ErrOwnerCannotLeave and
\* changes nothing; LeaveProject by a principal who holds a 'member' row returns
\* nil and removes exactly that row: the other membership rows, the projects, the
\* tasks and the notes stay as they are.
C9_LeaveProject ==
    [][\A s \in Slots : \A p \in project :
        (Steps(s) /\ req'[s].op = "LeaveProject" /\ req'[s].pid = p.id) =>
            /\ req'[s].user = p.owner_id =>
                  /\ req'[s].pc = "done" /\ req'[s].err = ErrOwnerCannotLeave
                  /\ UNCHANGED db
            /\ (/\ req'[s].user # p.owner_id
                /\ MemberRow(p.id, req'[s].user, RoleMember) \in BagToSet(project_member)) =>
                  IF Free(s)
                    THEN req'[s].pc = "delete" /\ UNCHANGED db
                    ELSE /\ req'[s].pc = "done" /\ req'[s].err = ErrNil
                         /\ project_member' (+)
                               SetToBag({MemberRow(p.id, req'[s].user, RoleMember)})
                            = project_member
                         /\ UNCHANGED <<project, task, note>>]_vars

\* a member has left a project that has another plain member, and the other
\* member's row is in place
C9_Witness ==
    \E s \in Slots : \E p \in project : \E u \in Users :
        /\ Returned(s, "LeaveProject") /\ req[s].err = ErrNil /\ req[s].pid = p.id
        /\ RowsOf(p.id, req[s].user) = EmptyBag
        /\ u # req[s].user
        /\ MemberRow(p.id, u, RoleMember) \in BagToSet(project_member)

\* C10: a CreateProject that returns an error leaves no project row and no
\* membership row behind; one that returns nil has stored the project row and its
\* owner's membership row; and no step leads to a project without an owner row.
C10_CreateAllOrNothing ==
    [][/\ \A s \in Slots :
            (Takes(s) /\ req'[s].op = "CreateProject") =>
                /\ req'[s].err # ErrNil =>
                      project' = project /\ project_member' = project_member
                /\ req'[s].err = ErrNil =>
                      /\ \E p \in project' \ project :
                            p.id = req'[s].pid /\ p.owner_id = req'[s].user
                      /\ project_member' = project_member (+)
                            SetToBag({MemberRow(req'[s].pid, req'[s].user, RoleOwner)})
       /\ \A p \in project' :
            MemberRow(p.id, p.owner_id, RoleOwner) \in BagToSet(project_member')]_vars

\* one CreateProject has failed and another has succeeded under the same fresh
\* id: the failed one left nothing behind, the store holds the one project and
\* its owner's row
C10_Witness ==
    \E s1, s2 \in Slots : \E p \in project :
        /\ Returned(s1, "CreateProject") /\ req[s1].err = ErrConn
        /\ Returned(s2, "CreateProject") /\ req[s2].err = ErrNil
        /\ req[s1].pid = p.id /\ req[s2].pid = p.id
        /\ project = {p}
        /\ project_member = SetToBag({MemberRow(p.id, p.owner_id, RoleOwner)})

\* no (project id, user id) pair occurs in more than one membership row of pm
UniquePairs(pm) ==
    \A r \in BagToSet(pm) :
        BagCardinality(BagFilter(pm, LAMBDA x : /\ x.project_id = r.project_id
                                                /\ x.user_id = r.user_id)) = 1

\* C11: the INSERT of an AddProjectMember whose (project, user) pair already has a
\* membership row (a member added before, or the owner) returns an error and
\* leaves the membership table as it is, with exactly one row for the pair; and
\* after every step no (project id, user id) pair occurs in more than one row.
C11_AddTwiceFails ==
    [][/\ \A s \in Slots :
            (/\ Steps(s) /\ req'[s].op = "AddProjectMember" /\ req[s].pc = "insert"
             /\ RowsOf(req[s].pid, req[s].arg) # EmptyBag) =>
                /\ req'[s].pc = "done" /\ req'[s].err # ErrNil
                /\ project_member' = project_member
                /\ BagCardinality(RowsOf(req[s].pid, req[s].arg)) = 1
       /\ UniquePairs(project_member')]_vars

\* the owner has added a user, has added the same user again and got the
\* uniqueness violation, and the pair has one row
C11_Witness ==
    \E s1, s2 \in Slots : \E p \in project :
        /\ Returned(s1, "AddProjectMember") /\ req[s1].err = ErrNil
        /\ Returned(s2, "AddProjectMember") /\ req[s2].err = ErrUniqueViolation
        /\ req[s1].pid = p.id /\ req[s2].pid = p.id
        /\ req[s1].arg = req[s2].arg /\ req[s1].arg # p.owner_id
        /\ BagCardinality(RowsOf(p.id, req[s1].arg)) = 1

\* a request of principal u on project pid, as the gates receive it
Probe(u, pid) == Request("probe", "call", u, pid, 0, "", "")

\* C12: in the state right after a CreateProject of principal u has returned nil,
\* the membership rows of the new project are exactly {(u, 'owner')}: u passes
\* the membership gate and the ownership gate, and every other principal is
\* stopped at the membership gate with ErrNoAccess.
C12_CreatorIsSoleMember ==
    [][\A s \in Slots : \A u \in Users : \A pid \in ProjectIDs :
        (/\ Takes(s) /\ req'[s].op = "CreateProject" /\ req'[s].err = ErrNil
         /\ req'[s].user = u /\ req'[s].pid = pid) =>
            /\ RepoGetProjectMembers(pid)' = SetToBag({MemberRow(pid, u, RoleOwner)})
            /\ AccessGate(Probe(u, pid), "read")'.pc = "read"
            /\ OwnerGate(Probe(u, pid), "update")'.pc = "update"
            /\ \A v \in Users \ {u} :
                  AccessGate(Probe(v, pid), "read")' =
                      Done(Probe(v, pid), ErrNoAccess, EmptyBag)]_vars

\* the second project has just been created by a user who is not the owner of
\* the first one; the owner of the first one has no row in the second
C12_Witness ==
    \E s \in Slots : \E p, q \in project :
        /\ Returned(s, "CreateProject") /\ req[s].err = ErrNil
        /\ req[s].pid = q.id /\ q.owner_id = req[s].user
        /\ p.id # q.id /\ p.owner_id # q.owner_id
        /\ RowsOf(q.id, p.owner_id) = EmptyBag
        /\ RepoGetProjectMembers(q.id) = SetToBag({MemberRow(q.id, q.owner_id, RoleOwner)})

\* C13: when the INSERT of an AddProjectMember for user t in project pid returns
\* nil, t holds exactly one membership row for pid and its role is 'member': t
\* passes the membership gate, is stopped at the ownership gate with ErrNotOwner,
\* and t's DeleteProject deletes nothing and returns an error.
C13_AddedIsPlainMember ==
    [][\A s \in Slots : \A t \in Users : \A pid \in ProjectIDs :
        (/\ Steps(s) /\ req'[s].op = "AddProjectMember" /\ req[s].pc = "insert"
         /\ req'[s].err = ErrNil /\ req'[s].arg = t /\ req'[s].pid = pid) =>
            /\ project_member' =
                  project_member (+) SetToBag({MemberRow(pid, t, RoleMember)})
            /\ RowsOf(pid, t)' = SetToBag({MemberRow(pid, t, RoleMember)})
            /\ AccessGate(Probe(t, pid), "insert")'.pc = "insert"
            /\ OwnerGate(Probe(t, pid), "update")' =
                  Done(Probe(t, pid), ErrNotOwner, EmptyBag)
            /\ RepoDeleteProject(pid, t)'.err # ErrNil
            /\ RepoDeleteProject(pid, t)'.project = project']_vars

\* the owner has added a user, and that user's UpdateProject on the project has
\* been refused with ErrNotOwner
C13_Witness ==
    \E s1, s2 \in Slots : \E p \in project :
        /\ Returned(s1, "AddProjectMember") /\ req[s1].err = ErrNil
        /\ req[s1].pid = p.id /\ req[s1].user = p.owner_id
        /\ Returned(s2, "UpdateProject") /\ req[s2].err = ErrNotOwner
        /\ req[s2].pid = p.id /\ req[s2].user = req[s1].arg
        /\ MemberRow(p.id, req[s1].arg, RoleMember) \in BagToSet(project_member)

Creates == {"CreateTask", "CreateNote"}

Response(rq) == <<rq.pc, rq.err, rq.out>>

\* C15: to a principal without a membership row for project pid,
\* GetTasksByProjectID answers the same in every state, whether the project
\* exists (with or without tasks) or not: ErrNoAccess and no data.
C15_NonMemberSeesNoDifference ==
    [][\A s \in Slots :
        (/\ Takes(s) /\ req'[s].op = "GetTasksByProjectID"
         /\ RowsOf(req'[s].pid, req'[s].user) = EmptyBag) =>
            Response(req'[s]) = <<"done", ErrNoAccess, EmptyBag>>]_vars

\* a principal without any membership has asked for the tasks of a project that
\* exists and has a task; a project id that does not exist gets the same answer
C15_Witness ==
    \E s \in Slots : \E p \in project : \E t \in task : \E q \in ProjectIDs :
        /\ Returned(s, "GetTasksByProjectID")
        /\ req[s].pid = p.id /\ t.project_id = p.id
        /\ MemberProjects(project_member, req[s].user) = {}
        /\ q \notin {x.id : x \in project}
        /\ Response(AccessGate(Probe(req[s].user, q), "read")) = Response(req[s])

\* user t holds a membership row for project pid
HasRow(t, pid) == RowsOf(pid, t) # EmptyBag

\* the membership gate refuses t for pid, and pid is not among t's projects
Locked(t, pid) ==
    /\ AccessGate(Probe(t, pid), "read") = Done(Probe(t, pid), ErrNoAccess, EmptyBag)
    /\ pid \notin {p.id : p \in BagToSet(RepoGetUserProjects(t))}

C17_ListOnlyMemberNotes ==
    [][\A s \in Slots :
        (Takes(s) /\ req'[s].op = "GetAllNotes") =>
            \A n \in BagToSet(req'[s].out) : HasRow(req'[s].user, n.project_id)]_vars

\* the sentinels of errs that the error mapping knows, by the claim
MappedSentinels == {ErrNoAccess, ErrNotOwner, ErrOwnerCannotLeave, ErrNotFound,
                    ErrInvalidID}

\* the sentinels among them that errors.Is finds in err
SentinelsIn(err) == {t \in MappedSentinels : Is(err, NewError(t))}

\* C18: HandleError sends 403 for ErrNoAccess, ErrNotOwner and
\* ErrOwnerCannotLeave, 404 for ErrNotFound, 400 for ErrInvalidID and 500 for
\* every other error, also when the sentinel is wrapped or joined with an error
\* that is not one of these sentinels.
C18_HandleErrorMapping ==
    handled.sent =>
        LET found == SentinelsIn(handled.err)
        IN  /\ found \in {{ErrNoAccess}, {ErrNotOwner}, {ErrOwnerCannotLeave}} =>
                  handled.code = StatusForbidden
            /\ found = {ErrNotFound} => handled.code = StatusNotFound
            /\ found = {ErrInvalidID} => handled.code = StatusBadRequest
            /\ found = {} => handled.code = StatusInternalServerError

\* C19: a DeleteTask for a task that does not exist, or that lies in a project
\* the caller is not a member of, returns ErrNotFound, which the task handler
\* sends as status 404, and deletes nothing; the two cases get the same answer.
C19_DeleteTaskNotFound ==
    [][\A s \in Slots :
        (/\ Takes(s) /\ req'[s].op = "DeleteTask"
         /\ ~\E t \in task : t.id = req'[s].arg /\ HasRow(req'[s].user, t.project_id)) =>
            /\ Response(req'[s]) = <<"done", ErrNotFound, EmptyBag>>
            /\ TaskHandlerDeleteTask(req'[s].err) = StatusNotFound
            /\ task' = task]_vars

Missing(pid) == pid \notin {p.id : p \in project}

\* C21: AddProjectMember, RemoveProjectMember and UpdateProject called by any
\* principal with a project id that has no project row return ErrNotFound at the
\* ownership gate and change nothing; and a later statement of such a request
\* that finds the project gone changes nothing and returns neither nil nor
\* ErrNotOwner.
C21_MissingProjectIsNotFound ==
    [][\A s \in Slots :
        (Steps(s) /\ req'[s].op \in OwnerGated /\ Missing(req'[s].pid)) =>
            /\ UNCHANGED db
            /\ req'[s].pc = "done"
            /\ req'[s].err \notin {ErrNil, ErrNotOwner}
            /\ Free(s) => Response(req'[s]) = <<"done", ErrNotFound, EmptyBag>>]_vars

\* the former owner of a project that has been deleted has asked to remove a
\* member of it and got ErrNotFound
C21_Witness ==
    \E s \in Slots :
        /\ Returned(s, "RemoveProjectMember") /\ req[s].err = ErrNotFound
        /\ req[s].pid <= nextProject /\ Missing(req[s].pid)
        /\ req[s].arg # req[s].user

\* the columns of a project row that no operation may write after creation
Identity(p) == [id |-> p.id, owner_id |-> p.owner_id]

\* C22: a project row gets its owner_id from the principal of the CreateProject
\* that stores it, and no step of UpdateProject, AddProjectMember,
\* RemoveProjectMember or LeaveProject changes the id or owner_id of any project
\* row or adds or removes a project row; a step of UpdateProject changes at most
\* the name and description of the project of the request, and no other table.
C22_OwnerIsFixed ==
    [][\A s \in Slots :
        /\ (Steps(s) /\ req'[s].op = "CreateProject") =>
              \A p \in project' \ project :
                  p.id = req'[s].pid /\ p.owner_id = req'[s].user
        /\ (Steps(s) /\ req'[s].op \in OwnerGated \cup {"LeaveProject"}) =>
              {Identity(p) : p \in project'} = {Identity(p) : p \in project}
        /\ (Steps(s) /\ req'[s].op = "UpdateProject") =>
              /\ \A p \in project' \ project :
                    /\ p.id = req'[s].pid
                    /\ p.name = req'[s].name /\ p.description = req'[s].description
              /\ \A p \in project \ project' : p.id = req'[s].pid
              /\ UNCHANGED <<project_member, task, note>>]_vars

\* the owner of both projects has renamed the second one; the first one has
\* its old name, and both still have this owner
C22_Witness ==
    \E s \in Slots : \E p, q \in project :
        /\ Returned(s, "UpdateProject") /\ req[s].err = ErrNil
        /\ req[s].pid = q.id /\ q.name = req[s].name
        /\ p.id # q.id /\ p.name # q.name
        /\ p.owner_id = req[s].user /\ q.owner_id = req[s].user
        /\ req[s].out = SetToBag({q})

\* what the middleware answered a request it did not pass on
Rejected(rq, status) ==
    /\ rq.pc = "done"
    /\ \A r \in BagToSet(rq.out) : r.status = status
    /\ rq.out # EmptyBag

\* C23: when a Logout of a token has returned nil, every later request with this
\* token that arrives before the token's expiry is answered 401 by AuthMiddleware
\* and is not passed to the protected handler (a request whose blacklist lookup
\* itself fails is not passed on either).
C23_LoggedOutIsRejected ==
    [][\A s, t \in Slots :
        (/\ Takes(s) /\ req'[s].op = "AuthMiddleware"
         /\ Returned(t, "Logout") /\ req[t].err = ErrNil
         /\ req'[s].user = req[t].user /\ req'[s].arg = req[t].arg
         /\ now < req[t].arg) =>
            /\ req'[s].pc # "next"
            /\ \/ Rejected(req'[s], StatusUnauthorized)
               \/ Rejected(req'[s], StatusInternalServerError)]_vars

\* C24: the answer of a CreateProject that returns nil carries the submitted
\* name and description, the principal as owner id, and an id and a creation time
\* that are not zero; and a GetProjectByID of the creator for that id, whenever
\* it runs afterwards, returns the same five values.
C24_CreateThenReadBack ==
    [][\A s \in Slots :
        /\ (Takes(s) /\ req'[s].op = "CreateProject" /\ req'[s].err = ErrNil) =>
              \E p \in project' \ project :
                  /\ req'[s].out = SetToBag({p})
                  /\ p.name = req'[s].name /\ p.description = req'[s].description
                  /\ p.owner_id = req'[s].user
                  /\ p.id = req'[s].pid /\ p.id # 0 /\ p.created_at # 0
        /\ \A t \in Slots :
              (/\ Steps(s) /\ req'[s].op = "GetProjectByID" /\ req'[s].pc = "done"
               /\ Returned(t, "CreateProject") /\ req[t].err = ErrNil
               /\ req'[s].user = req[t].user /\ req'[s].pid = req[t].pid) =>
                  /\ req'[s].err = ErrNil
                  /\ req'[s].out = req[t].out]_vars

\* a project with a description has been created and, a tick later, read back by
\* its creator while another project exists; both answers are the same row
C24_Witness ==
    \E s, t \in Slots : \E p, q \in project :
        /\ Returned(t, "CreateProject") /\ req[t].err = ErrNil
        /\ Returned(s, "GetProjectByID") /\ req[s].err = ErrNil
        /\ req[s].pid = req[t].pid /\ req[s].user = req[t].user
        /\ req[s].out = SetToBag({p}) /\ req[t].out = SetToBag({p})
        /\ p.description = "x" /\ p.created_at < now
        /\ q.id # p.id /\ q.created_at # p.created_at

\* C25: under interleaved DeleteTask and RemoveProjectMember requests, a
\* DeleteTask returns nil only in the step in which its own DELETE removes the
\* task.
C25_DeleteSuccessMeansDeleted ==
    [][\A s \in Slots :
        (/\ Steps(s) /\ req'[s].op = "DeleteTask"
         /\ req'[s].pc = "done" /\ req'[s].err = ErrNil) =>
            \E t \in task \ task' : t.id = req'[s].arg]_vars

\* C26: under interleaved CreateTask, CreateNote, RemoveProjectMember and
\* LeaveProject requests, a task or note row of principal u is inserted only in a
\* state in which u holds a membership row for the row's project.
C26_InsertNeedsMembership ==
    [][\A s \in Slots :
        (Steps(s) /\ req'[s].op \in Creates) =>
            /\ \A t \in task' \ task :
                  t.user_id = req'[s].user /\ HasRow(t.user_id, t.project_id)
            /\ \A n \in note' \ note :
                  n.user_id = req'[s].user /\ HasRow(n.user_id, n.project_id)]_vars

\* C27: a task row is inserted with status 'waiting'; after every step the status
\* of every stored task is 'waiting', 'in_progress' or 'completed'; and an
\* UpdateTaskStatus that carries any other value leaves the task table as it is
\* (and returns the constraint's error when it matches a row).
C27_StatusInDomain ==
    [][/\ \A t \in task' : t.status \in TaskStatuses
       /\ \A t \in task' : t.id \notin {x.id : x \in task} => t.status = StatusWaiting
       /\ \A s \in Slots :
            (/\ Takes(s) /\ req'[s].op = "UpdateTaskStatus"
             /\ req'[s].name \notin TaskStatuses) =>
                /\ task' = task
                /\ TaskScope(req'[s].arg, req'[s].user) # {} =>
                      req'[s].err = ErrCheckViolation]_vars

\* a member has asked for a status outside the schema's three for a task that is
\* 'in_progress', got the constraint's error, and the task is still 'in_progress'
C27_Witness ==
    \E s \in Slots : \E t \in task :
        /\ Returned(s, "UpdateTaskStatus") /\ req[s].err = ErrCheckViolation
        /\ req[s].arg = t.id /\ req[s].name = "done"
        /\ t.status = StatusInProgress
        /\ HasRow(req[s].user, t.project_id)

\* every row of the answer occurs in it once
NoDuplicates(out) == \A r \in BagToSet(out) : out[r] = 1

\* C28: the answer of GetAllNotes holds each note at most once, however many
\* members the note's project has; the answers of GetTasksByProjectID and
\* GetTasksByUserID hold each task of the caller's projects (of the requested
\* project) exactly once.
C28_EachRowOnce ==
    [][\A s \in Slots :
        (Steps(s) /\ req'[s].pc = "done" /\ req'[s].err = ErrNil) =>
            /\ req'[s].op = "GetAllNotes" => NoDuplicates(req'[s].out)
            /\ req'[s].op = "GetTasksByUserID" =>
                  req'[s].out =
                      SetToBag({t \in task : HasRow(req'[s].user, t.project_id)})
            /\ req'[s].op = "GetTasksByProjectID" =>
                  req'[s].out =
                      SetToBag({t \in task : /\ t.project_id = req'[s].pid
                                             /\ HasRow(req'[s].user, t.project_id)})]_vars

\* C29: a registration whose CreateUser has succeeded goes on to the token whether
\* the default project is created or not, and returns the token of the new user
\* unless CreateJWT fails.  When the default project is created, its owner is the
\* new user and its only membership row is the new user's 'owner' row; when it is
\* not, the step stores no project row and no membership row, and the new user,
\* whose row exists, owns no project and holds no membership row.
C29_RegisterKeepsGoing ==
    [][\A s \in Slots : \A u \in 1..(NumUsers + MaxRegistered) :
        /\ (/\ Steps(s) /\ req'[s].op = "Register" /\ req[s].pc = "project"
            /\ req[s].user = u) =>
              /\ req'[s].pc = "token"
              /\ u \in UserIDs
              /\ req'[s].pid # 0 =>
                    /\ \E p \in project' \ project :
                          p.id = req'[s].pid /\ p.owner_id = u
                    /\ \A pid \in ProjectIDs : pid = req'[s].pid =>
                          RepoGetProjectMembers(pid)' =
                              SetToBag({MemberRow(pid, u, RoleOwner)})
              /\ req'[s].pid = 0 =>
                    /\ project' = project /\ project_member' = project_member
                    /\ \A p \in project' : p.owner_id # u
                    /\ MemberProjects(project_member, u)' = {}
        /\ (/\ Steps(s) /\ req'[s].op = "Register" /\ req[s].pc = "token"
            /\ req[s].user = u) =>
              /\ req'[s].pc = "done"
              /\ req'[s].err = ErrNil => req'[s].out = SetToBag({CreateJWT(u)})
              /\ req'[s].err # ErrNil => req'[s].err = ErrSign
              /\ UNCHANGED <<db, user>>
        /\ (/\ Takes(s) /\ req'[s].op = "Register" /\ req'[s].pc = "done") =>
              /\ req'[s].err # ErrNil
              /\ UNCHANGED <<db, user>>]_vars

\* two registrations have returned a token: the default project of one failed
\* and that user owns nothing and is a member of nothing, the other user is the
\* owner and only member of a default project
C29_Witness ==
    \E s, t \in Slots : \E p \in project :
        /\ Returned(s, "Register") /\ req[s].err = ErrNil /\ req[s].pid = 0
        /\ req[s].out # EmptyBag /\ req[s].user \in UserIDs
        /\ MemberProjects(project_member, req[s].user) = {}
        /\ Returned(t, "Register") /\ req[t].err = ErrNil /\ req[t].pid = p.id
        /\ p.owner_id = req[t].user /\ p.name = DefaultName
        /\ RepoGetProjectMembers(p.id) = SetToBag({MemberRow(p.id, p.owner_id, RoleOwner)})

\* the ids of the stored projects
StoredProjects == {p.id : p \in project}

\* C30: after every step each task and each note references a stored project; a
\* task or note that is stored before and after a step keeps its project id and
\* its creator id; a step that removes a membership row and no project (Remove-
\* ProjectMember, LeaveProject) leaves the task and note tables as they are; and a
\* step that removes a project removes every membership row, task and note of
\* that project and nothing else.
C30_ContentFollowsProject ==
    [][/\ \A t \in task' : t.project_id \in StoredProjects'
       /\ \A n \in note' : n.project_id \in StoredProjects'
       /\ \A t \in task : \A x \in task' :
             x.id = t.id => x.project_id = t.project_id /\ x.user_id = t.user_id
       /\ \A n \in note : \A x \in note' :
             x.id = n.id => x.project_id = n.project_id /\ x.user_id = n.user_id
       /\ (project_member' # project_member /\ project' = project) =>
             task' = task /\ note' = note
       /\ \A p \in project \ project' :
             /\ \A r \in BagToSet(project_member') : r.project_id # p.id
             /\ task' = {t \in task : t.project_id # p.id}
             /\ note' = {n \in note : n.project_id # p.id}]_vars

\* a member who created a task or a note has left or been removed, and the row is
\* still in the project under their name
C30_Witness ==
    \E s \in Slots : \E x \in task \cup note :
        /\ req[s].op \in {"RemoveProjectMember", "LeaveProject"}
        /\ req[s].pc = "done" /\ req[s].err = ErrNil
        /\ x.project_id = req[s].pid
        /\ x.project_id \in StoredProjects
        /\ ~HasRow(x.user_id, x.project_id)

====
